---- MODULE Spec2Model ----
(***************************************************************************)
(* Model of src/main.py: the LatexBuilder step pipeline (registration,     *)
(* planning by guard / name / tag / range, dry run, error policy) and the  *)
(* batch text replacement action.                                          *)
(*                                                                         *)
(* A Python str is a sequence of one-character strings; None is a value    *)
(* that is no str.  A Step is a record (name, fn, tags, when); the plan is *)
(* a list of references to the registered Step objects, modelled as the    *)
(* list of their positions in self.pipeline.  A step's action either       *)
(* returns or raises an Exception, as the environment decides.             *)
(***************************************************************************)
EXTENDS Integers, Sequences, FiniteSets, TLC

VARIABLES
    pipeline,        \* self.pipeline: list[Step]
    args,            \* self.args: the parsed Namespace (parsed = FALSE: still None)
    pc,              \* "build" | "exec" | "done" | "raised": where run() is
    steps,           \* run()'s local list `steps`, as positions in pipeline
    calls,           \* the invocations s.fn(self) made so far, with their outcome
    errors,          \* the "[ERROR] name" lines printed so far (positions)
    files,           \* the files under LATEX_DIR: path -> [suffix, text]
    modified_count   \* the count the last _do_replace_in_tex reported

vars == <<pipeline, args, pc, steps, calls, errors, files, modified_count>>

(***************************************************************************)
(* Bounds of the model.                                                    *)
(***************************************************************************)
MaxSteps == 3
MaxRangeSteps == 4
MaxExecSteps == 4
MaxTextLen == 3
MaxPatLen == 2

(***************************************************************************)
(* Python values.                                                          *)
(***************************************************************************)
None == <<"None">>

Truthy(s) == s # None /\ s # <<>>

Whitespace == {" "}

RECURSIVE SeqSum(_)
SeqSum(ss) == IF ss = <<>> THEN <<>> ELSE Head(ss) \o SeqSum(Tail(ss))

Range(s) == {s[i] : i \in DOMAIN s}

(***************************************************************************)
(* _split_csv: s.split(","), x.strip() on each field, empty fields dropped.*)
(***************************************************************************)
RECURSIVE Split(_, _)
Split(s, sep) ==
    IF \E i \in DOMAIN s : s[i] = sep
    THEN LET i == CHOOSE j \in DOMAIN s :
                      s[j] = sep /\ \A l \in 1..(j - 1) : s[l] # sep
         IN  <<SubSeq(s, 1, i - 1)>> \o Split(SubSeq(s, i + 1, Len(s)), sep)
    ELSE <<s>>

RECURSIVE LStrip(_)
LStrip(s) ==
    IF s # <<>> /\ Head(s) \in Whitespace THEN LStrip(Tail(s)) ELSE s

RECURSIVE RStrip(_)
RStrip(s) ==
    IF s # <<>> /\ s[Len(s)] \in Whitespace
    THEN RStrip(SubSeq(s, 1, Len(s) - 1))
    ELSE s

Strip(s) == RStrip(LStrip(s))

\* Variant: the fields are not stripped.
SplitCsvUnstripped(s) ==
    IF ~Truthy(s)
    THEN {}
    ELSE {y \in Range(Split(s, ",")) : y # <<>>}

_split_csv(s) ==
    IF ~Truthy(s)
    THEN {}
    ELSE {Strip(x) : x \in {y \in Range(Split(s, ",")) : Strip(y) # <<>>}}

(***************************************************************************)
(* The Namespace and getattr(self.args, name, default).                    *)
(***************************************************************************)
NoArgs ==
    [parsed |-> FALSE, skip_md |-> FALSE, skip_pdf |-> FALSE, only |-> None,
     skip |-> None, from_step |-> None, until_step |-> None,
     dry_run |-> FALSE, on_error |-> "stop"]

GetAttr(a, name, default) == IF a.parsed THEN a[name] ELSE default

\* parse_args followed by the --only-step compatibility rule.
ParsedArgs(argv) ==
    [parsed |-> TRUE, skip_md |-> argv.skip_md, skip_pdf |-> argv.skip_pdf,
     only |-> IF argv.only = None /\ Truthy(argv.only_step)
              THEN argv.only_step ELSE argv.only,
     skip |-> argv.skip, from_step |-> argv.from_step,
     until_step |-> argv.until_step, dry_run |-> argv.dry_run,
     on_error |-> argv.on_error]

(***************************************************************************)
(* Step guards: the three `when` predicates the module registers.          *)
(***************************************************************************)
When(w, a) ==
    CASE w = "always"       -> TRUE
      [] w = "not_skip_md"  -> ~GetAttr(a, "skip_md", FALSE)
      [] w = "not_skip_pdf" -> ~GetAttr(a, "skip_pdf", FALSE)

\* fn is <<"other">> for an action whose effect is outside the model, and
\* <<"replace", p, r>> for the closure replace_in_tex binds.
Step(name, fn, tags, when) ==
    [name |-> name, fn |-> fn, tags |-> tags, when |-> when]

(***************************************************************************)
(* The planner of run(): each stage is a list comprehension or a slice.    *)
(***************************************************************************)
Positions(p) == [i \in 1..Len(p) |-> i]

\* Variant: the guards are not consulted.
GuardFilterAll(p, a) == Positions(p)

GuardFilter(p, a) == SelectSeq(Positions(p), LAMBDA i : When(p[i].when, a))

Selected(s, names) == (s.name \in names) \/ (s.tags \cap names # {})

\* Variant: the steps matched by name, then the steps matched by tag.
OnlyFilterNameThenTag(p, st, only) ==
    IF only # {}
    THEN SelectSeq(st, LAMBDA i : p[i].name \in only)
         \o SelectSeq(st, LAMBDA i : p[i].tags \cap only # {})
    ELSE st

OnlyFilter(p, st, only) ==
    IF only # {} THEN SelectSeq(st, LAMBDA i : Selected(p[i], only)) ELSE st

\* Variant: exclusion by name only.
SkipFilterNamesOnly(p, st, skip) ==
    IF skip # {} THEN SelectSeq(st, LAMBDA i : p[i].name \notin skip) ELSE st

SkipFilter(p, st, skip) ==
    IF skip # {} THEN SelectSeq(st, LAMBDA i : ~Selected(p[i], skip)) ELSE st

\* next(i for i, s in enumerate(steps) if s.name == name); 0 is StopIteration.
FirstIndex(p, st, name) ==
    IF \E i \in DOMAIN st : p[st[i]].name = name
    THEN CHOOSE i \in DOMAIN st :
             /\ p[st[i]].name = name
             /\ \A j \in 1..(i - 1) : p[st[j]].name # name
    ELSE 0

FromSlice(p, st, from_name) ==
    IF Truthy(from_name) /\ FirstIndex(p, st, from_name) # 0
    THEN SubSeq(st, FirstIndex(p, st, from_name), Len(st))
    ELSE st

\* Variant: the matched step is dropped too (steps[:idx]).
UntilSliceExclusive(p, st, until_name) ==
    IF Truthy(until_name) /\ FirstIndex(p, st, until_name) # 0
    THEN SubSeq(st, 1, FirstIndex(p, st, until_name) - 1)
    ELSE st

UntilSlice(p, st, until_name) ==
    IF Truthy(until_name) /\ FirstIndex(p, st, until_name) # 0
    THEN SubSeq(st, 1, FirstIndex(p, st, until_name))
    ELSE st

\* The list after the guard, --only and --skip stages.
Filtered(p, a) ==
    SkipFilter(p,
               OnlyFilter(p, GuardFilter(p, a),
                          _split_csv(GetAttr(a, "only", None))),
               _split_csv(GetAttr(a, "skip", None)))

\* Variant: both bounds are looked up in the filtered list before slicing.
PlanBoundsOnFiltered(p, a) ==
    LET F == Filtered(p, a)
        f == GetAttr(a, "from_step", None)
        u == GetAttr(a, "until_step", None)
        i == IF Truthy(f) /\ FirstIndex(p, F, f) # 0 THEN FirstIndex(p, F, f) ELSE 1
        j == IF Truthy(u) /\ FirstIndex(p, F, u) # 0 THEN FirstIndex(p, F, u)
             ELSE Len(F)
    IN  SubSeq(F, i, j)

Plan(p, a) ==
    UntilSlice(p,
               FromSlice(p, Filtered(p, a), GetAttr(a, "from_step", None)),
               GetAttr(a, "until_step", None))

(***************************************************************************)
(* _do_replace_in_tex: str.replace, the `in` test and the loop over        *)
(* LATEX_DIR.rglob("*.tex").                                               *)
(***************************************************************************)
StartsWith(text, p) ==
    Len(p) <= Len(text) /\ SubSeq(text, 1, Len(p)) = p

\* pattern in text
Contains(text, p) ==
    \E i \in 0..(Len(text) - Len(p)) : SubSeq(text, i + 1, i + Len(p)) = p

\* text.replace(p, r) for a non-empty p: one left-to-right pass over text.
RECURSIVE ReplaceScan(_, _, _)
ReplaceScan(text, p, r) ==
    IF text = <<>> THEN <<>>
    ELSE IF StartsWith(text, p)
         THEN r \o ReplaceScan(SubSeq(text, Len(p) + 1, Len(text)), p, r)
         ELSE <<Head(text)>> \o ReplaceScan(Tail(text), p, r)

\* Variant: text.replace(p, r, 1), the first occurrence only.
StrReplaceFirst(text, p, r) ==
    IF \E i \in 1..(Len(text) - Len(p) + 1) : SubSeq(text, i, i + Len(p) - 1) = p
    THEN LET i == CHOOSE k \in 1..(Len(text) - Len(p) + 1) :
                      /\ SubSeq(text, k, k + Len(p) - 1) = p
                      /\ \A l \in 1..(k - 1) : SubSeq(text, l, l + Len(p) - 1) # p
         IN  SubSeq(text, 1, i - 1) \o r \o SubSeq(text, i + Len(p), Len(text))
    ELSE text

\* text.replace(p, r); an empty p matches before every character and at the end.
StrReplace(text, p, r) ==
    IF p = <<>>
    THEN SeqSum([i \in 1..Len(text) |-> r \o <<text[i]>>]) \o r
    ELSE ReplaceScan(text, p, r)

IsTex(f) == f.suffix = "tex"

\* The files the loop rewrites.
Matching(fs, p) == {n \in DOMAIN fs : IsTex(fs[n]) /\ Contains(fs[n].text, p)}

ReplacedFiles(fs, p, r) ==
    [n \in DOMAIN fs |->
        IF n \in Matching(fs, p)
        THEN [fs[n] EXCEPT !.text = StrReplace(fs[n].text, p, r)]
        ELSE fs[n]]

ModifiedCount(fs, p) == Cardinality(Matching(fs, p))

(***************************************************************************)
(* Operations.                                                             *)
(***************************************************************************)
NoFiles == <<>>

Init ==
    /\ pipeline = <<>>
    /\ args = NoArgs
    /\ pc = "build"
    /\ steps = <<>>
    /\ calls = <<>>
    /\ errors = <<>>
    /\ files = NoFiles
    /\ modified_count = 0

\* set_args(argv), called once, before run().
set_args(Argvs) ==
    /\ pc = "build"
    /\ ~args.parsed
    /\ \E argv \in Argvs : args' = ParsedArgs(argv)
    /\ UNCHANGED <<pipeline, pc, steps, calls, errors, files, modified_count>>

\* The Step that _register builds from its arguments: the name defaults to
\* the function's __name__, the guard to the always-true lambda.
NoGuard == "None"

RegisteredStep(c) ==
    Step(IF Truthy(c.name) THEN c.name ELSE c.func_name,
         c.func, c.tags,
         IF c.when = NoGuard THEN "always" ELSE c.when)

\* _register(func, name=..., tags=..., when=...)
_register(Calls, max) ==
    /\ pc = "build"
    /\ Len(pipeline) < max
    /\ \E c \in Calls : pipeline' = Append(pipeline, RegisteredStep(c))
    /\ UNCHANGED <<args, pc, steps, calls, errors, files, modified_count>>

\* replace_in_tex(pattern, replacement, name=name)
ReplaceStepName(p, r, name) ==
    IF Truthy(name) THEN name
    ELSE <<"r", "e", "p", "l", "a", "c", "e", "_", "i", "n", "_", "t", "e", "x", ":">>
         \o p \o <<"=", ">">> \o r

replace_in_tex(Pats, Reps, Names, max) ==
    \E p \in Pats, r \in Reps, name \in Names :
        _register({[func |-> <<"replace", p, r>>,
                    func_name |-> <<"<", "l", "a", "m", "b", "d", "a", ">">>,
                    name |-> ReplaceStepName(p, r, name),
                    tags |-> {<<"t", "e", "x", "t">>},
                    when |-> NoGuard]}, max)

\* Variant: the dry-run flag is not consulted.
RunPlanIgnoringDryRun ==
    /\ pc = "build"
    /\ steps' = Plan(pipeline, args)
    /\ pc' = "exec"
    /\ UNCHANGED <<pipeline, args, calls, errors, files, modified_count>>

\* run(), from its start to the dry-run return or the start of the loop.
RunPlan ==
    /\ pc = "build"
    /\ steps' = Plan(pipeline, args)
    /\ pc' = IF GetAttr(args, "dry_run", FALSE) THEN "done" ELSE "exec"
    /\ UNCHANGED <<pipeline, args, calls, errors, files, modified_count>>

\* Variant: a failure is re-raised whatever the policy.
RunStepAlwaysRaise(Outcomes) ==
    /\ pc = "exec"
    /\ Len(calls) < Len(steps)
    /\ \E raised \in Outcomes :
          /\ calls' = Append(calls, [step |-> steps[Len(calls) + 1], raised |-> raised])
          /\ errors' = IF raised THEN Append(errors, steps[Len(calls) + 1]) ELSE errors
          /\ pc' = IF raised THEN "raised" ELSE pc
    /\ UNCHANGED <<pipeline, args, steps, files, modified_count>>

\* Variant: a failure is logged and the loop goes on whatever the policy.
RunStepAlwaysContinue(Outcomes) ==
    /\ pc = "exec"
    /\ Len(calls) < Len(steps)
    /\ \E raised \in Outcomes :
          /\ calls' = Append(calls, [step |-> steps[Len(calls) + 1], raised |-> raised])
          /\ errors' = IF raised THEN Append(errors, steps[Len(calls) + 1]) ELSE errors
    /\ UNCHANGED <<pipeline, args, pc, steps, files, modified_count>>

\* One iteration of `for s in steps`: s.fn(self) returns or raises an
\* Exception; the except clause prints the error and continues or re-raises.
RunStep(Outcomes) ==
    /\ pc = "exec"
    /\ Len(calls) < Len(steps)
    /\ LET s  == steps[Len(calls) + 1]
           fn == pipeline[s].fn
       IN  \E raised \in Outcomes :
             /\ calls' = Append(calls, [step |-> s, raised |-> raised])
             /\ IF fn[1] = "replace" /\ ~raised
                THEN /\ files' = ReplacedFiles(files, fn[2], fn[3])
                     /\ modified_count' = ModifiedCount(files, fn[2])
                ELSE UNCHANGED <<files, modified_count>>
             /\ errors' = IF raised THEN Append(errors, s) ELSE errors
             /\ pc' = IF raised /\ GetAttr(args, "on_error", "stop") # "continue"
                      THEN "raised" ELSE pc
    /\ UNCHANGED <<pipeline, args, steps>>

\* The loop is exhausted: run() returns self.
RunEnd ==
    /\ pc = "exec"
    /\ Len(calls) = Len(steps)
    /\ pc' = "done"
    /\ UNCHANGED <<pipeline, args, steps, calls, errors, files, modified_count>>

(***************************************************************************)
(* Inputs: the strings and option values the specifications draw from.     *)
(***************************************************************************)
A == <<"a">>
B == <<"b">>
C == <<"c">>
D == <<"d">>
E == <<"e">>
T == <<"t">>

\* Calls of _register with a function named "a" whose effect is not modelled.
StepsOf(Names, TagSets, Whens) ==
    [func : {<<"other">>}, func_name : {A}, name : Names, tags : TagSets,
     when : Whens]

Policies == {"stop", "continue"}

(***************************************************************************)
(* Spec: the planner under every kind of filter at once.                   *)
(***************************************************************************)
PlanSteps == StepsOf({A, B}, {{}, {T}}, {NoGuard, "not_skip_md"})

PlanArgvs ==
    [skip_md : BOOLEAN, skip_pdf : {FALSE}, only_step : {None},
     only : {None, A, <<"t", ",", "b">>}, skip : {None, B, <<" ", "t">>},
     from_step : {None, B}, until_step : {None, A},
     dry_run : {TRUE}, on_error : {"stop"}]

Next ==
    \/ set_args(PlanArgvs)
    \/ _register(PlanSteps, MaxSteps)
    \/ RunPlan

Spec == Init /\ [][Next]_vars

(***************************************************************************)
(* SpecSelect: guards and the include-set, over three step names.          *)
(***************************************************************************)
SelectSteps == StepsOf({A, B, C}, {{}, {T}}, {NoGuard, "not_skip_pdf"})

SelectArgvs ==
    [skip_md : {FALSE}, skip_pdf : BOOLEAN, only_step : {None, B},
     only : {None, <<>>, <<",", " ">>, T, <<"a", " ", ",", "c">>},
     skip : {None, <<" ", ",">>},
     from_step : {None}, until_step : {None},
     dry_run : {TRUE}, on_error : {"stop"}]

NextSelect ==
    \/ set_args(SelectArgvs)
    \/ _register(SelectSteps, MaxSteps)
    \/ RunPlan

SpecSelect == Init /\ [][NextSelect]_vars

(***************************************************************************)
(* SpecRange: --from / --until over longer registries of plain steps.      *)
(***************************************************************************)
RangeNames == {A, B, C, D, E}

RangeSteps == StepsOf(RangeNames, {{}}, {NoGuard})

RangeArgvs ==
    [skip_md : {FALSE}, skip_pdf : {FALSE}, only_step : {None},
     only : {None}, skip : {None, B},
     from_step : {None, <<>>} \cup RangeNames,
     until_step : {None} \cup RangeNames,
     dry_run : BOOLEAN, on_error : {"stop"}]

NextRange ==
    \/ set_args(RangeArgvs)
    \/ _register(RangeSteps, MaxRangeSteps)
    \/ RunPlan

SpecRange == Init /\ [][NextRange]_vars

(***************************************************************************)
(* SpecExec: the executor, every action free to return or raise.           *)
(***************************************************************************)
ExecSteps == StepsOf({None, B}, {{}}, {NoGuard, "not_skip_md"})

ExecArgvs ==
    [skip_md : BOOLEAN, skip_pdf : {FALSE}, only_step : {None},
     only : {None, A}, skip : {None, B},
     from_step : {None, B}, until_step : {None, A},
     dry_run : BOOLEAN, on_error : Policies]

NextExec ==
    \/ set_args(ExecArgvs)
    \/ _register(ExecSteps, MaxExecSteps)
    \/ RunPlan
    \/ RunStep(BOOLEAN)
    \/ RunEnd

SpecExec == Init /\ [][NextExec]_vars

(***************************************************************************)
(* SpecReplace: one replace_in_tex step run over a directory of files.     *)
(***************************************************************************)
Chars == {"x", "y"}

\* The strings over Chars of length at most n.
StringsUpTo(n) == UNION {[1..k -> Chars] : k \in 0..n}

Paths == {"p1", "p2"}

TexFiles == [suffix : {"tex"}, text : StringsUpTo(MaxTextLen)]

OtherFiles == [suffix : {"aux"}, text : {<<"x", "y">>}]

\* A directory: some of the paths exist, each a .tex file or another file.
Directories ==
    UNION {[ps -> TexFiles \cup OtherFiles] : ps \in SUBSET Paths}

InitReplace ==
    /\ pipeline = <<>>
    /\ args = NoArgs
    /\ pc = "build"
    /\ steps = <<>>
    /\ calls = <<>>
    /\ errors = <<>>
    /\ files \in Directories
    /\ modified_count = 0

NextReplace ==
    \/ replace_in_tex(StringsUpTo(MaxPatLen), StringsUpTo(MaxPatLen), {None, A}, 1)
    \/ RunPlan
    \/ RunStep({FALSE})
    \/ RunEnd

SpecReplace == InitReplace /\ [][NextReplace]_vars

(***************************************************************************)
(* Vocabulary of the properties, stated without the planner's operators.   *)
(***************************************************************************)
Planned == pc # "build"

Increasing(st) == \A i, j \in DOMAIN st : i < j => st[i] < st[j]

NameOf(i) == pipeline[i].name

\* The step's guard holds under the configuration.
GuardPasses(i) ==
    /\ pipeline[i].when = "not_skip_md" => ~args.skip_md
    /\ pipeline[i].when = "not_skip_pdf" => ~args.skip_pdf

\* The names a comma-separated option value lists: each maximal comma-free
\* field without the whitespace around it, when something is left.
Listed(s) ==
    IF s = None THEN {}
    ELSE {SubSeq(s, i, j) : <<i, j>> \in
            {ij \in (DOMAIN s) \X (DOMAIN s) :
                /\ ij[1] <= ij[2]
                /\ \A k \in ij[1]..ij[2] : s[k] # ","
                /\ s[ij[1]] \notin Whitespace
                /\ s[ij[2]] \notin Whitespace
                /\ \E a \in 1..ij[1] :
                      /\ a = 1 \/ s[a - 1] = ","
                      /\ \A k \in a..(ij[1] - 1) : s[k] \in Whitespace
                /\ \E b \in ij[2]..Len(s) :
                      /\ b = Len(s) \/ s[b + 1] = ","
                      /\ \A k \in (ij[2] + 1)..b : s[k] \in Whitespace}}

IncludeSet == Listed(args.only)

ExcludeSet == Listed(args.skip)

Chosen(i, names) ==
    NameOf(i) \in names \/ pipeline[i].tags \cap names # {}

\* st lists exactly the positions in S, in registry order.
ListsExactly(st, S) == Increasing(st) /\ Range(st) = S

\* C1: the plan run() computes is a subsequence of the registry: every planned
\* step is a registered step, none occurs more often than it was registered,
\* and planned steps keep their registry order.
C1_PlanIsSubsequence ==
    Planned =>
        /\ \A i \in DOMAIN steps : steps[i] \in DOMAIN pipeline
        /\ Increasing(steps)

C1_Witness ==
    /\ Planned
    /\ Len(pipeline) = 3
    /\ steps = <<2, 3>>
    /\ args.from_step = B
    /\ IncludeSet = {T, B}
    /\ ExcludeSet = {}
    /\ args.until_step = A
    /\ args.skip_md
    /\ NameOf(1) = B /\ pipeline[1].tags = {T}
    /\ NameOf(2) = B /\ NameOf(3) = A

\* C2: with empty include- and exclude-sets and neither --from nor --until,
\* the plan is the registry in registration order without exactly the steps
\* whose guard is false.
C2_EmptyFiltersKeepGuarded ==
    ( /\ Planned
      /\ IncludeSet = {}
      /\ ExcludeSet = {}
      /\ args.from_step = None
      /\ args.until_step = None )
    => ListsExactly(steps, {i \in DOMAIN pipeline : GuardPasses(i)})

C2_Witness ==
    /\ Planned
    /\ args.only = <<",", " ">>
    /\ args.skip = <<" ", ",">>
    /\ args.skip_pdf
    /\ Len(pipeline) = 3
    /\ pipeline[2].when = "not_skip_pdf"
    /\ pipeline[2].tags = {T}
    /\ steps = <<1, 3>>

\* C3: with a non-empty include-set and no exclude-set or range bound, the
\* plan is exactly the guard-passing steps whose name is in the include-set
\* or whose tags intersect it, in registry order; a tag carried only by steps
\* A and C gives [A, C].
C3_IncludeSelectsByNameOrTag ==
    ( /\ Planned
      /\ IncludeSet # {}
      /\ ExcludeSet = {}
      /\ args.from_step = None
      /\ args.until_step = None )
    => ListsExactly(steps, {i \in DOMAIN pipeline :
                              GuardPasses(i) /\ Chosen(i, IncludeSet)})

C3_Witness ==
    /\ Planned
    /\ args.only = T
    /\ Len(pipeline) = 3
    /\ NameOf(1) = A /\ NameOf(2) = B /\ NameOf(3) = C
    /\ pipeline[1].tags = {T} /\ pipeline[2].tags = {} /\ pipeline[3].tags = {T}
    /\ steps = <<1, 3>>

\* C9: whenever the exclude-set is non-empty, no step whose name is in it or
\* whose tags intersect it is planned, also when the include-set selects the
\* step and whatever --from / --until say.
C9_ExclusionWins ==
    (Planned /\ ExcludeSet # {}) =>
        \A k \in DOMAIN steps : ~Chosen(steps[k], ExcludeSet)

C9_Witness ==
    /\ Planned
    /\ IncludeSet = {A}
    /\ ExcludeSet = {T}
    /\ args.from_step = B
    /\ Len(pipeline) = 3
    /\ NameOf(1) = A /\ pipeline[1].tags = {T} /\ pipeline[1].when = "always"
    /\ NameOf(2) = A /\ pipeline[2].tags = {}
    /\ steps = <<2>>

\* The list of filtered steps the range bounds are resolved against.
FilteredList == Filtered(pipeline, args)

DistinctNames(st) ==
    \A i, j \in DOMAIN st : NameOf(st[i]) = NameOf(st[j]) => i = j

NamedAt(st, name) == {i \in DOMAIN st : NameOf(st[i]) = name}

Least(S) == CHOOSE i \in S : \A j \in S : i <= j

\* C4: over filtered steps with distinct names, --from B --until D with B at
\* or before D plans exactly the slice from B through D, both included; when
\* no filtered step is named B the start bound is ignored and the plan is the
\* first step through D; the run is not aborted.
C4_RangeSlice ==
    ( /\ Planned
      /\ DistinctNames(FilteredList)
      /\ args.from_step # None
      /\ args.until_step # None )
    => LET F == FilteredList IN
       /\ pc # "raised"
       /\ \A b, d \in DOMAIN F :
             ( /\ NameOf(F[b]) = args.from_step
               /\ NameOf(F[d]) = args.until_step
               /\ b <= d )
             => steps = SubSeq(F, b, d)
       /\ \A d \in DOMAIN F :
             ( /\ NamedAt(F, args.from_step) = {}
               /\ NameOf(F[d]) = args.until_step )
             => steps = SubSeq(F, 1, d)

C4_Witness ==
    /\ Planned
    /\ Len(pipeline) = 4
    /\ NameOf(1) = A /\ NameOf(2) = B /\ NameOf(3) = C /\ NameOf(4) = D
    /\ args.from_step = B
    /\ args.until_step = C
    /\ args.skip = None
    /\ ~args.dry_run
    /\ steps = <<2, 3>>

\* C10: --until is resolved against the list left by the guard, include,
\* exclude and --from stages, first match first: if a step of that name stands
\* at or after the --from step the plan ends with the first such step; if the
\* only steps of that name stand before the --from step or were filtered out,
\* the plan runs from the --from step to the end of the filtered list.
C10_UntilAfterFrom ==
    (Planned /\ args.until_step # None) =>
       LET F     == FilteredList
           start == IF NamedAt(F, args.from_step) # {}
                    THEN Least(NamedAt(F, args.from_step)) ELSE 1
           ends  == {j \in NamedAt(F, args.until_step) : j >= start}
       IN  steps = SubSeq(F, start, IF ends # {} THEN Least(ends) ELSE Len(F))

C10_Witness ==
    /\ Planned
    /\ Len(pipeline) = 4
    /\ NameOf(1) = A /\ NameOf(2) = B /\ NameOf(3) = C /\ NameOf(4) = A
    /\ args.skip = B
    /\ args.from_step = C
    /\ args.until_step = A
    /\ steps = <<3, 4>>

\* C10, the other case: the only step with the --until name lies before the
\* --from step, so the end bound is ignored.
C10_WitnessIgnored ==
    /\ Planned
    /\ Len(pipeline) = 4
    /\ NameOf(1) = A /\ NameOf(2) = B /\ NameOf(3) = C /\ NameOf(4) = D
    /\ args.from_step = B
    /\ args.until_step = A
    /\ steps = <<2, 3, 4>>

\* C4, the other case: no filtered step carries the --from name.
C4_WitnessAbsent ==
    /\ Planned
    /\ Len(pipeline) = 4
    /\ NameOf(1) = A /\ NameOf(2) = B /\ NameOf(3) = C /\ NameOf(4) = D
    /\ args.skip = B
    /\ args.from_step = B
    /\ args.until_step = C
    /\ steps = <<1, 3>>

(***************************************************************************)
(* The executor.                                                           *)
(***************************************************************************)
\* The invocations made so far are those of the first steps of the plan, one
\* each, in plan order.
CallsFollowPlan ==
    /\ Len(calls) <= Len(steps)
    /\ \A k \in DOMAIN calls : calls[k].step = steps[k]

Failures == SelectSeq(calls, LAMBDA c : c.raised)

\* C5: with the dry-run flag set, run() invokes no action, whatever the
\* registry, the filters and the error policy, and returns normally.
C5_DryRunInvokesNothing ==
    args.dry_run =>
        /\ calls = <<>>
        /\ errors = <<>>
        /\ pc \in {"build", "done"}

C5_Witness ==
    /\ args.dry_run
    /\ args.on_error = "continue"
    /\ pc = "done"
    /\ Len(pipeline) = 4
    /\ Len(steps) = 2
    /\ IncludeSet = {A}
    /\ args.skip_md
    /\ args.from_step = B

\* C6: under policy continue without dry-run, every planned step is invoked
\* exactly once in plan order whichever actions fail, each failure is reported,
\* and run() returns normally.
C6_ContinueRunsEveryStep ==
    (args.on_error = "continue" /\ ~args.dry_run) =>
        /\ CallsFollowPlan
        /\ pc # "raised"
        /\ pc = "done" => Len(calls) = Len(steps)
        /\ errors = [k \in DOMAIN Failures |-> Failures[k].step]

C6_Witness ==
    /\ args.on_error = "continue"
    /\ ~args.dry_run
    /\ pc = "done"
    /\ Len(steps) = 4
    /\ [k \in DOMAIN calls |-> calls[k].raised] = <<FALSE, TRUE, FALSE, FALSE>>
    /\ errors = <<steps[2]>>

\* C7: under policy stop, when the k-th planned action is the first to fail,
\* exactly the actions of steps 1..k have been invoked, once each and in plan
\* order, no later action is invoked, and the failure leaves run() (it does
\* not report completion).
C7_StopAtFirstFailure ==
    (args.on_error = "stop" /\ ~args.dry_run) =>
        /\ CallsFollowPlan
        /\ \A k \in DOMAIN calls :
              calls[k].raised => (k = Len(calls) /\ pc = "raised")
        /\ pc = "raised" =>
              (calls # <<>> /\ calls[Len(calls)].raised
                 /\ errors = <<steps[Len(calls)]>>)
        /\ pc = "done" => (Len(calls) = Len(steps) /\ errors = <<>>)

C7_Witness ==
    /\ args.on_error = "stop"
    /\ ~args.dry_run
    /\ pc = "raised"
    /\ Len(steps) = 4
    /\ [k \in DOMAIN calls |-> calls[k].raised] = <<FALSE, TRUE>>

(***************************************************************************)
(* Text substitution.                                                      *)
(***************************************************************************)
\* The pattern occurs in the text: text = u \o p \o v for some u and v.
Occurs(text, p) ==
    \E i \in 0..Len(text), j \in 1..(Len(text) + 1) :
        SubSeq(text, 1, i) \o p \o SubSeq(text, j, Len(text)) = text

\* The positions where an occurrence of p starts.
Occurrences(text, p) ==
    {i \in 1..(Len(text) - Len(p) + 1) : SubSeq(text, i, i + Len(p) - 1) = p}

\* The occurrences that are replaced: read left to right, each occurrence that
\* does not overlap one already taken (all of them when none overlap).
RECURSIVE Taken(_, _, _)
Taken(text, p, n) ==
    IF n = 0 THEN {}
    ELSE LET before == Taken(text, p, n - 1)
         IN  IF /\ n \in Occurrences(text, p)
                /\ \A j \in before : j + Len(p) <= n
             THEN before \cup {n}
             ELSE before

\* The text with the replacement in the place of every taken occurrence and
\* every other character kept.
Substituted(text, p, r) ==
    LET taken == Taken(text, p, Len(text) + 1)
        piece(i) ==
            (IF i \in taken THEN r ELSE <<>>)
            \o (IF i <= Len(text) /\ ~\E j \in taken : j <= i /\ i < j + Len(p)
                THEN <<text[i]>> ELSE <<>>)
    IN  SeqSum([i \in 1..(Len(text) + 1) |-> piece(i)])

\* The .tex files that contain the pattern.
TexWith(fs, p) == {n \in DOMAIN fs : fs[n].suffix = "tex" /\ Occurs(fs[n].text, p)}

\* C8: the text substitution run over N .tex files of which M contain the
\* pattern reports exactly M modified files, replaces every occurrence of the
\* pattern in those M files with the replacement, also when the replacement
\* contains the pattern, and leaves the other files unchanged.
C8_ReplaceCountsAndRewrites ==
    [][ (pc = "exec" /\ calls' # calls) =>
          LET fn == pipeline[steps[Len(calls) + 1]].fn
              p  == fn[2]
              r  == fn[3]
          IN  /\ fn[1] = "replace"
              /\ modified_count' = Cardinality(TexWith(files, p))
              /\ DOMAIN files' = DOMAIN files
              /\ \A n \in DOMAIN files :
                    IF n \in TexWith(files, p)
                    THEN files'[n] =
                           [suffix |-> "tex", text |-> Substituted(files[n].text, p, r)]
                    ELSE files'[n] = files[n] ]_vars

C8_Witness ==
    /\ pc = "done"
    /\ Len(calls) = 1
    /\ pipeline[1].fn = <<"replace", <<"x">>, <<"x", "y">>>>
    /\ DOMAIN files = Paths
    /\ files["p1"] = [suffix |-> "tex", text |-> <<"x", "y", "y", "x", "y">>]
    /\ files["p2"] = [suffix |-> "tex", text |-> <<"y", "y">>]
    /\ modified_count = 1

====
